---- MODULE Spec2Model ----
(***************************************************************************)
(* Model of the survey dashboard's dataset pipeline:                       *)
(*   utils.py            load_processed_dataset, merge_attachments,        *)
(*                       run_specific_scripts, get_labels_for_multiple     *)
(*   specific_scripts/process.py   the role explosion transform            *)
(*                                                                         *)
(* Text is a sequence of one-character strings, so that split, strip and   *)
(* substring search are computed as Python computes them.  Column names    *)
(* are plain strings (they are only compared and concatenated).            *)
(***************************************************************************)
EXTENDS Naturals, Integers, Sequences, FiniteSets, TLC

VARIABLES
    pc,             \* position in load_processed_dataset (or the handler under check)
    cfg,            \* tab_config and the outcomes of the outside world, fixed for a run
    df,             \* load_processed_dataset's / run_specific_scripts' local df
    column_labels,  \* load_processed_dataset's local column_labels
    label_info,     \* load_processed_dataset's local label_info
    ret,            \* what load_processed_dataset handed its caller
    units,          \* sorted(os.listdir(folder)) of the running run_specific_scripts
    ui,             \* index of the unit the loop is at
    spc,            \* position inside the executing script
    sdf,            \* local_vars['df'] of the executing script
    aliased,        \* whether sdf is still the very object df names
    ri,             \* process.py: index of the record the loop is at
    si,             \* index of the statement a script given by its statements is at
    long_rows,      \* process.py: long_rows, each entry with the record and token it came from
    log,            \* observations: what each stage or unit received and handed on
    df_main,        \* merge_attachments' local df_main
    df_form,        \* merge_attachments' local df_form
    fin,            \* input of the function under check
    fout            \* its output

vars == <<pc, cfg, df, column_labels, label_info, ret, units, ui, spc, sdf,
          aliased, ri, long_rows, log, df_main, df_form, si, fin, fout>>

(***************************************************************************)
(* Bounds of the model                                                     *)
(***************************************************************************)
MaxRows == 2

(***************************************************************************)
(* Text                                                                    *)
(***************************************************************************)
Range(s) == {s[i] : i \in 1..Len(s)}

Whitespace == {" ", "\t"}

IsSpace(c) == c \in Whitespace

\* str.strip()
RECURSIVE LStrip(_)
LStrip(s) == IF s # <<>> /\ IsSpace(Head(s)) THEN LStrip(Tail(s)) ELSE s

RECURSIVE RStrip(_)
RStrip(s) ==
    IF s # <<>> /\ IsSpace(s[Len(s)]) THEN RStrip(SubSeq(s, 1, Len(s) - 1)) ELSE s

Strip(s) == RStrip(LStrip(s))

\* str.split() with no argument: the maximal runs of non-whitespace, in order
RECURSIVE SplitFrom(_, _, _)
SplitFrom(s, cur, acc) ==
    IF s = <<>>
    THEN IF cur = <<>> THEN acc ELSE Append(acc, cur)
    ELSE IF IsSpace(Head(s))
         THEN SplitFrom(Tail(s), <<>>, IF cur = <<>> THEN acc ELSE Append(acc, cur))
         ELSE SplitFrom(Tail(s), Append(cur, Head(s)), acc)

\* a split that hands the runs back last first
Split_last_first(s) ==
    LET q == SplitFrom(s, <<>>, <<>>) IN [k \in 1..Len(q) |-> q[Len(q) + 1 - k]]

Split(s) == SplitFrom(s, <<>>, <<>>)

\* sep.join(parts)
RECURSIVE Join(_, _)
Join(parts, sep) ==
    IF parts = <<>> THEN <<>>
    ELSE IF Len(parts) = 1 THEN parts[1]
    ELSE parts[1] \o sep \o Join(Tail(parts), sep)

\* name in text
Contains(text, name) ==
    \E i \in 0..(Len(text) - Len(name)) : SubSeq(text, i + 1, i + Len(name)) = name

\* re.sub(pat, rep, s) for a literal pattern
RECURSIVE ReplaceAll(_, _, _)
ReplaceAll(s, pat, rep) ==
    IF Len(s) < Len(pat) \/ pat = <<>> THEN s
    ELSE IF SubSeq(s, 1, Len(pat)) = pat
         THEN rep \o ReplaceAll(SubSeq(s, Len(pat) + 1, Len(s)), pat, rep)
         ELSE <<Head(s)>> \o ReplaceAll(Tail(s), pat, rep)

(***************************************************************************)
(* Cell values: a text, the float NaN of a missing cell, or an integer     *)
(***************************************************************************)
NaN == <<"NaN">>

Digits == {"0", "1", "2", "3", "4", "5", "6", "7", "8", "9"}

IntVal(d) == <<"int", d>>

IsNaN(v) == v = NaN

IsInt(v) == Len(v) = 2 /\ v[1] = "int"

IsStr(v) == ~IsNaN(v) /\ ~IsInt(v)

\* pd.notna
NotNa(v) == ~IsNaN(v)

\* str(v)
StrOf(v) ==
    IF IsNaN(v) THEN <<"n", "a", "n">>
    ELSE IF IsInt(v) THEN <<v[2]>>
    ELSE v

(***************************************************************************)
(* Tables (DataFrame): column names in order, rows of cells in that order  *)
(***************************************************************************)
Table(cols, rows) == [cols |-> cols, rows |-> rows]

EmptyFrame == Table(<<>>, <<>>)

\* a local that has not been assigned
Unbound == Table(<<"<unbound>">>, <<>>)

\* a dict local: not yet assigned, or bound to a dict with these keys
UnboundInfo == [bound |-> FALSE, keys |-> <<>>]

HasCol(t, c) == c \in Range(t.cols)

ColIdx(t, c) == CHOOSE i \in 1..Len(t.cols) : t.cols[i] = c /\ \A j \in 1..(i - 1) : t.cols[j] # c

Cell(t, r, c) == t.rows[r][ColIdx(t, c)]

NRows(t) == Len(t.rows)

\* df[c] = [f(v) for v in df[c]] on an existing column
MapCol(t, c, f(_)) ==
    Table(t.cols,
          [r \in 1..NRows(t) |->
              [k \in 1..Len(t.cols) |->
                  IF t.cols[k] = c THEN f(t.rows[r][k]) ELSE t.rows[r][k]]])

NoDupCols(t) == \A i, j \in 1..Len(t.cols) : t.cols[i] = t.cols[j] => i = j

(***************************************************************************)
(* dict: insertion-ordered key/value pairs                                 *)
(***************************************************************************)
DictHas(d, k) == \E i \in 1..Len(d) : d[i][1] = k

DictGet(d, k) == d[CHOOSE i \in 1..Len(d) : d[i][1] = k][2]

DictSet(d, k, v) ==
    IF DictHas(d, k)
    THEN [i \in 1..Len(d) |-> IF d[i][1] = k THEN <<k, v>> ELSE d[i]]
    ELSE Append(d, <<k, v>>)

DictKeys(d) == [i \in 1..Len(d) |-> d[i][1]]

(***************************************************************************)
(* specific_scripts/process.py                                             *)
(***************************************************************************)
RA == <<"R", "A">>

FC == <<"F", "C">>

Hybrid == <<"H", "y", "b", "r", "i", "d">>

Other == <<"O", "t", "h", "e", "r">>

\* a map that gives Other a suffix of its own, like the other roles
role_suffix_map_other_suffixed ==
    (RA :> "_ra") @@ (FC :> "_fc") @@ (Hybrid :> "_hyb") @@ (Other :> "_other")

role_suffix_map == (RA :> "_ra") @@ (FC :> "_fc") @@ (Hybrid :> "_hyb") @@ (Other :> "")

base_columns ==
    <<"project_name", "project_location", "pi_name", "pi_add", "project_blurb",
      "hire_role", "hire_role_other", "KEY", "hire_predoc_ra">>

column_prefixes ==
    <<"number_role", "hire_position_location", "hire_desired_date",
      "position_details_others", "language", "skill_labels", "language_stata",
      "language_r", "language_scto", "language_other", "language_bigdata",
      "language_python">>

\* row.get(c, "")
RowGet(t, r, c) == IF HasCol(t, c) THEN Cell(t, r, c) ELSE <<>>

\* line 21: str(row.get("hire_role", "")).split()
RolesOf(t, r) == Split(StrOf(RowGet(t, r, "hire_role")))

\* line 28: {col: row[col] for col in base_columns if col in row}
BaseDict(t, r) ==
    LET present == SelectSeq(base_columns, LAMBDA c : HasCol(t, c))
    IN  [k \in 1..Len(present) |-> <<present[k], Cell(t, r, present[k])>>]

\* line 30: row.get("hire_role_other", "").strip() raises on a value that is no str
OtherRaises(t, r) == ~IsStr(RowGet(t, r, "hire_role_other"))

\* lines 29-33: the value stored under hire_role
RoleValue(t, r, role_clean) ==
    IF role_clean = Other
    THEN LET role_other_value == Strip(RowGet(t, r, "hire_role_other"))
         IN  IF role_other_value # <<>> THEN role_other_value ELSE Other
    ELSE role_clean

\* lines 35-38: the prefix columns of the role, from index k on
RECURSIVE AddPrefixes(_, _, _, _, _)
AddPrefixes(new_row, t, r, suffix, k) ==
    IF k > Len(column_prefixes) THEN new_row
    ELSE LET col_prefix == column_prefixes[k]
             full_col == col_prefix \o suffix
         IN  IF HasCol(t, full_col) /\ NotNa(Cell(t, r, full_col))
             THEN AddPrefixes(DictSet(new_row, col_prefix, Cell(t, r, full_col)),
                              t, r, suffix, k + 1)
             ELSE AddPrefixes(new_row, t, r, suffix, k + 1)

\* lines 26-38: the new_row of one recognized role
NewRow(t, r, role_clean) ==
    AddPrefixes(DictSet(BaseDict(t, r), "hire_role", RoleValue(t, r, role_clean)),
                t, r, role_suffix_map[role_clean], 1)

\* lines 23-40: the inner loop from token k on; acc holds what was appended
RECURSIVE ExplodeRoles(_, _, _, _, _)
ExplodeRoles(t, r, roles, k, acc) ==
    IF k > Len(roles) THEN [raised |-> FALSE, rows |-> acc]
    ELSE LET role_clean == Strip(roles[k])
         IN  IF role_clean \notin DOMAIN role_suffix_map
             THEN ExplodeRoles(t, r, roles, k + 1, acc)
             ELSE IF role_clean = Other /\ OtherRaises(t, r)
             THEN [raised |-> TRUE, rows |-> acc]
             ELSE ExplodeRoles(t, r, roles, k + 1,
                      Append(acc, [src |-> r, tok |-> k, role |-> role_clean,
                                   row |-> NewRow(t, r, role_clean)]))

\* lines 20-40 for record r
ExplodeRecord(t, r) == ExplodeRoles(t, r, RolesOf(t, r), 1, <<>>)

\* line 42: pd.DataFrame(long_rows): the keys in order of first appearance, NaN where
\* a dict has no such key
RECURSIVE FrameCols(_, _)
FrameCols(dicts, cols) ==
    IF dicts = <<>> THEN cols
    ELSE LET fresh == SelectSeq(DictKeys(Head(dicts)), LAMBDA k : k \notin Range(cols))
         IN  FrameCols(Tail(dicts), cols \o fresh)

DataFrame(dicts) ==
    LET cols == FrameCols(dicts, <<>>)
    IN  Table(cols,
              [r \in 1..Len(dicts) |->
                  [k \in 1..Len(cols) |->
                      IF DictHas(dicts[r], cols[k]) THEN DictGet(dicts[r], cols[k])
                      ELSE NaN]])

\* line 46: [c.name for c in pycountry.countries] + ["Global"]; of pycountry's names
\* the model keeps three, two of them one inside the other
Chad == <<"C", "h", "a", "d">>

Niger == <<"N", "i", "g", "e", "r">>

Nigeria == <<"N", "i", "g", "e", "r", "i", "a">>

Global == <<"G", "l", "o", "b", "a", "l">>

CountryNames == <<Chad, Niger, Nigeria>> \o <<Global>>

\* sorted(names, key=lambda x: -len(x)): stable, longest first
RECURSIVE InsertByLen(_, _)
InsertByLen(sorted, x) ==
    IF sorted = <<>> THEN <<x>>
    ELSE IF Len(Head(sorted)) >= Len(x)
         THEN <<Head(sorted)>> \o InsertByLen(Tail(sorted), x)
         ELSE <<x>> \o sorted

RECURSIVE SortByLenDesc(_)
SortByLenDesc(names) ==
    IF names = <<>> THEN <<>>
    ELSE InsertByLen(SortByLenDesc(SubSeq(names, 1, Len(names) - 1)), names[Len(names)])

\* line 46: the names picked for one text
PickedNames(text) ==
    SelectSeq(SortByLenDesc(CountryNames), LAMBDA name : Contains(StrOf(text), name))

\* lines 45-47: the lambda applied to one cell
NormalizeLocation(text) == Join(PickedNames(text), <<",", " ">>)

\* line 50: int(v) of one cell; <<>> stands for the raise
RECURSIVE DropZeros(_)
DropZeros(s) == IF Len(s) > 1 /\ Head(s) = "0" THEN DropZeros(Tail(s)) ELSE s

RECURSIVE Concat(_)
Concat(s) == IF s = <<>> THEN "" ELSE Head(s) \o Concat(Tail(s))

IntRaises(v) ==
    IF IsNaN(v) THEN TRUE
    ELSE IF IsInt(v) THEN FALSE
    ELSE LET s == Strip(v) IN s = <<>> \/ \E i \in 1..Len(s) : s[i] \notin Digits

ToInt(v) == IF IsInt(v) THEN v ELSE IntVal(Concat(DropZeros(Strip(v))))

\* line 52: the mis-decoded apostrophe
Mojibake == <<"U+201A", "U+00C4", "U+00F4">>

FixQuote(v) == IF IsStr(v) THEN ReplaceAll(v, Mojibake, <<"'">>) ELSE v

No == <<"N", "o">>

\* line 53: df.loc[df["pi_add"] == "No", "pi_name"] = ""
BlankPiName(t) ==
    IF HasCol(t, "pi_name")
    THEN Table(t.cols,
               [r \in 1..NRows(t) |->
                   [k \in 1..Len(t.cols) |->
                       IF t.cols[k] = "pi_name" /\ Cell(t, r, "pi_add") = No
                       THEN <<>> ELSE t.rows[r][k]]])
    ELSE Table(Append(t.cols, "pi_name"),
               [r \in 1..NRows(t) |->
                   Append(t.rows[r], IF Cell(t, r, "pi_add") = No THEN <<>> ELSE NaN)])

(***************************************************************************)
(* utils.py run_specific_scripts                                           *)
(***************************************************************************)
EndsWith(name, ext) ==
    Len(name) >= Len(ext) /\ SubSeq(name, Len(name) - Len(ext) + 1, Len(name)) = ext

DotPy == <<".", "p", "y">>

DotR == <<".", "R">>

ProcessPyName == <<"p", "r", "o", "c", "e", "s", "s">> \o DotPy

\* a file of specific_scripts/: process.py itself, or a script given by what it does
ProcessUnit ==
    [name |-> ProcessPyName, script |-> "process", stmts |-> <<>>, rc |-> 0, rout |-> "ok"]

LogEntry(ev, stage, unit, before, after, failed) ==
    [ev |-> ev, stage |-> stage, unit |-> unit, before |-> before, after |-> after,
     failed |-> failed]

\* the last entry of the log, closed with what the unit handed on
CloseUnit(l, after, failed) ==
    [l EXCEPT ![Len(l)].after = after, ![Len(l)].failed = failed, ![Len(l)].ev = "unit"]

\* lines 335-341: a .py file is read and exec starts on local_vars = {'df': df, ...}
\* (process.py line 18 included)
StartPyUnit ==
    /\ pc = "CustomTransforms" /\ spc = "idle" /\ ui <= Len(units)
    /\ EndsWith(units[ui].name, DotPy)
    /\ sdf' = df
    /\ aliased' = TRUE
    /\ ri' = 1
    /\ si' = 1
    /\ long_rows' = <<>>
    /\ spc' = IF units[ui].script = "process" THEN "loop" ELSE "stmts"
    /\ log' = Append(log, LogEntry("running", "", units[ui].name, df, df, FALSE))
    /\ UNCHANGED <<pc, cfg, df, column_labels, label_info, ret, units, ui, df_main, df_form,
                   fin, fout>>

\* process.py lines 20-40, one record of df.iterrows()
ExplodeRow ==
    /\ pc = "CustomTransforms" /\ spc = "loop" /\ ri <= NRows(sdf)
    /\ LET o == ExplodeRecord(sdf, ri)
       IN  /\ long_rows' = long_rows \o o.rows
           /\ spc' = IF o.raised THEN "raised" ELSE "loop"
           /\ ri' = IF o.raised THEN ri ELSE ri + 1
    /\ UNCHANGED <<pc, cfg, df, column_labels, label_info, ret, units, ui, sdf, aliased,
                   log, df_main, df_form,
                   si, fin, fout>>

\* process.py line 42: df is bound to a new frame
BuildFrame ==
    /\ pc = "CustomTransforms" /\ spc = "loop" /\ ri > NRows(sdf)
    /\ sdf' = DataFrame([k \in 1..Len(long_rows) |-> long_rows[k].row])
    /\ aliased' = FALSE
    /\ spc' = "location"
    /\ UNCHANGED <<pc, cfg, df, column_labels, label_info, ret, units, ui, ri, long_rows,
                   log, df_main, df_form,
                   si, fin, fout>>

\* an assignment into the script's frame reaches the caller's while they are one object
InPlace(new_sdf) ==
    /\ sdf' = new_sdf
    /\ df' = IF aliased THEN new_sdf ELSE df

\* process.py lines 44-48
NormalizeColumn ==
    /\ pc = "CustomTransforms" /\ spc = "location"
    /\ IF HasCol(sdf, "hire_position_location")
       THEN /\ InPlace(MapCol(sdf, "hire_position_location", NormalizeLocation))
            /\ spc' = "number"
       ELSE /\ spc' = "raised"
            /\ UNCHANGED <<sdf, df>>
    /\ UNCHANGED <<pc, cfg, column_labels, label_info, ret, units, ui, aliased, ri,
                   long_rows, log, df_main, df_form,
                   si, fin, fout>>

\* a coercion that lets what it cannot convert pass (errors="ignore")
AsTypeIntRaises_only_missing_column(t) == ~HasCol(t, "number_role")

\* whether df["number_role"].astype(int) raises
AsTypeIntRaises(t) ==
    \/ ~HasCol(t, "number_role")
    \/ \E r \in 1..NRows(t) : IntRaises(Cell(t, r, "number_role"))

\* process.py line 50
CoerceNumberRole ==
    /\ pc = "CustomTransforms" /\ spc = "number"
    /\ IF AsTypeIntRaises(sdf)
       THEN /\ spc' = "raised"
            /\ UNCHANGED <<sdf, df>>
       ELSE /\ InPlace(MapCol(sdf, "number_role", ToInt))
            /\ spc' = "quotes"
    /\ UNCHANGED <<pc, cfg, column_labels, label_info, ret, units, ui, aliased, ri,
                   long_rows, log, df_main, df_form,
                   si, fin, fout>>

\* process.py line 52: df is bound to the frame replace returns
ReplaceQuotes ==
    /\ pc = "CustomTransforms" /\ spc = "quotes"
    /\ sdf' = Table(sdf.cols,
                    [r \in 1..NRows(sdf) |->
                        [k \in 1..Len(sdf.cols) |-> FixQuote(sdf.rows[r][k])]])
    /\ aliased' = FALSE
    /\ spc' = "pi_name"
    /\ UNCHANGED <<pc, cfg, df, column_labels, label_info, ret, units, ui, ri, long_rows,
                   log, df_main, df_form,
                   si, fin, fout>>

\* process.py lines 53-57
ClearPiName ==
    /\ pc = "CustomTransforms" /\ spc = "pi_name"
    /\ IF HasCol(sdf, "pi_add")
       THEN /\ InPlace(BlankPiName(sdf))
            /\ spc' = "end"
       ELSE /\ spc' = "raised"
            /\ UNCHANGED <<sdf, df>>
    /\ UNCHANGED <<pc, cfg, column_labels, label_info, ret, units, ui, aliased, ri,
                   long_rows, log, df_main, df_form,
                   si, fin, fout>>

\* line 342: exec returned, df = local_vars['df']
UnitReturn ==
    /\ pc = "CustomTransforms" /\ spc = "end"
    /\ df' = sdf
    /\ ui' = ui + 1
    /\ spc' = "idle"
    /\ log' = CloseUnit(log, sdf, FALSE)
    /\ UNCHANGED <<pc, cfg, column_labels, label_info, ret, units, sdf, aliased, ri,
                   long_rows, df_main, df_form,
                   si, fin, fout>>

\* lines 343-344: the script raised, df keeps naming what it named
UnitExcept ==
    /\ pc = "CustomTransforms" /\ spc = "raised"
    /\ ui' = ui + 1
    /\ spc' = "idle"
    /\ log' = CloseUnit(log, df, TRUE)
    /\ UNCHANGED <<pc, cfg, df, column_labels, label_info, ret, units, sdf, aliased, ri,
                   long_rows, df_main, df_form,
                   si, fin, fout>>

\* line 371: the loop is over, return df (to load_processed_dataset line 134)
ScriptsReturn ==
    /\ pc = "CustomTransforms" /\ spc = "idle" /\ ui > Len(units)
    /\ pc' = "LabelResolution"
    /\ log' = Append(log, LogEntry("stage_out", "CustomTransforms", <<>>, df, df, FALSE))
    /\ UNCHANGED <<cfg, df, column_labels, label_info, ret, units, ui, spc, sdf, aliased,
                   ri, long_rows, df_main, df_form,
                   si, fin, fout>>

\* df[c] = v
SetCol(t, c, v) ==
    IF HasCol(t, c)
    THEN Table(t.cols,
               [r \in 1..NRows(t) |->
                   [k \in 1..Len(t.cols) |-> IF t.cols[k] = c THEN v ELSE t.rows[r][k]]])
    ELSE Table(Append(t.cols, c), [r \in 1..NRows(t) |-> Append(t.rows[r], v)])

\* lines 340-341 on a script given by its statements: df = df.copy()
StmtCopy ==
    /\ pc = "CustomTransforms" /\ spc = "stmts" /\ si <= Len(units[ui].stmts)
    /\ units[ui].stmts[si] = "copy"
    /\ aliased' = FALSE
    /\ si' = si + 1
    /\ UNCHANGED <<pc, cfg, df, column_labels, label_info, ret, units, ui, spc, sdf, ri,
                   long_rows, log, df_main, df_form, fin, fout>>

\* lines 340-341 on a script given by its statements: df["flag"] = 1
StmtAssign ==
    /\ pc = "CustomTransforms" /\ spc = "stmts" /\ si <= Len(units[ui].stmts)
    /\ units[ui].stmts[si] = "assign"
    /\ InPlace(SetCol(sdf, "flag", IntVal("1")))
    /\ si' = si + 1
    /\ UNCHANGED <<pc, cfg, column_labels, label_info, ret, units, ui, spc, aliased, ri,
                   long_rows, log, df_main, df_form, fin, fout>>

\* lines 340-341 on a script given by its statements: raise ValueError(...)
StmtRaise ==
    /\ pc = "CustomTransforms" /\ spc = "stmts" /\ si <= Len(units[ui].stmts)
    /\ units[ui].stmts[si] = "raise"
    /\ spc' = "raised"
    /\ UNCHANGED <<pc, cfg, df, column_labels, label_info, ret, units, ui, sdf, aliased,
                   ri, si, long_rows, log, df_main, df_form, fin, fout>>

\* lines 341-343 on a script given by its statements: sys.exit(1); SystemExit is not
\* an Exception, the except clause does not take it and it leaves run_specific_scripts
StmtExit ==
    /\ pc = "CustomTransforms" /\ spc = "stmts" /\ si <= Len(units[ui].stmts)
    /\ units[ui].stmts[si] = "exit"
    /\ spc' = "propagated"
    /\ pc' = "Raised"
    /\ ret' = [kind |-> "raise", exc |-> "SystemExit", df |-> Unbound,
               column_labels |-> UnboundInfo, label_info |-> UnboundInfo]
    /\ log' = [log EXCEPT ![Len(log)].after = df, ![Len(log)].failed = TRUE,
                          ![Len(log)].ev = "propagated"]
    /\ UNCHANGED <<cfg, df, column_labels, label_info, units, ui, sdf, aliased, ri, si,
                   long_rows, df_main, df_form, fin, fout>>

\* line 341: exec reached the end of the script
StmtsEnd ==
    /\ pc = "CustomTransforms" /\ spc = "stmts" /\ si > Len(units[ui].stmts)
    /\ spc' = "end"
    /\ UNCHANGED <<pc, cfg, df, column_labels, label_info, ret, units, ui, sdf, aliased,
                   ri, si, long_rows, log, df_main, df_form, fin, fout>>

\* df.to_csv (line 355) followed by pd.read_csv (line 367), on one cell
CsvRoundTrip(v) ==
    IF ~IsStr(v) THEN v
    ELSE IF v = <<>> THEN NaN
    ELSE IF \A i \in 1..Len(v) : v[i] \in Digits THEN IntVal(Concat(DropZeros(v)))
    ELSE v

\* what pd.read_csv(temp_output) gives after an R script that writes its input back
\* with a column r_done
ROutput(t) ==
    SetCol(Table(t.cols,
                 [r \in 1..NRows(t) |->
                     [k \in 1..Len(t.cols) |-> CsvRoundTrip(t.rows[r][k])]]),
           "r_done", IntVal("1"))

\* lines 348-369: an .R file
RunRUnit ==
    /\ pc = "CustomTransforms" /\ spc = "idle" /\ ui <= Len(units)
    /\ ~EndsWith(units[ui].name, DotPy) /\ EndsWith(units[ui].name, DotR)
    /\ LET failed == units[ui].rc # 0 \/ units[ui].rout # "ok"
           after  == IF failed THEN df ELSE ROutput(df)
       IN  /\ df' = after
           /\ log' = Append(log, LogEntry("unit", "", units[ui].name, df, after, failed))
    /\ ui' = ui + 1
    /\ UNCHANGED <<pc, cfg, column_labels, label_info, ret, units, spc, sdf, aliased, ri,
                   si, long_rows, df_main, df_form, fin, fout>>

\* lines 331-348: a file that is neither .py nor .R
SkipFile ==
    /\ pc = "CustomTransforms" /\ spc = "idle" /\ ui <= Len(units)
    /\ ~EndsWith(units[ui].name, DotPy) /\ ~EndsWith(units[ui].name, DotR)
    /\ ui' = ui + 1
    /\ log' = Append(log, LogEntry("skipped", "", units[ui].name, df, df, FALSE))
    /\ UNCHANGED <<pc, cfg, df, column_labels, label_info, ret, units, spc, sdf, aliased,
                   ri, si, long_rows, df_main, df_form, fin, fout>>

\* the table a stage received
StageIn(stage) ==
    log[CHOOSE k \in 1..Len(log) : log[k].ev = "stage_in" /\ log[k].stage = stage].before

EnteredStage(stage) == \E k \in 1..Len(log) : log[k].ev = "stage_in" /\ log[k].stage = stage

LeftStage(stage) == \E k \in 1..Len(log) : log[k].ev = "stage_out" /\ log[k].stage = stage

(***************************************************************************)
(* The custom-transform stage on its own: run_specific_scripts on a fetched *)
(* table, specific_scripts/ holding process.py                             *)
(***************************************************************************)
Mgr == <<"M", "g", "r">>

Yes == <<"Y", "e", "s">>

HireRoleValues == {NaN, RA, RA \o <<" ">> \o Other, Mgr \o <<" ", " ">> \o Other}

HireRoleOtherValues == {NaN, <<>>, <<" ">>, <<" ", "D", "r", " ">>}

\* the role counts of a record: fine, a text that is no number, or a blank cell
NumberKinds == {"ok", "text", "blank"}

ExplodeCols ==
    <<"KEY", "hire_role", "hire_role_other", "pi_add", "pi_name", "number_role_ra",
      "number_role", "hire_position_location_ra", "hire_position_location">>

DigitOf(n) == CASE n = 0 -> "0" [] n = 1 -> "1" [] n = 2 -> "2" [] n = 3 -> "3"
                [] n = 4 -> "4" [] OTHER -> "9"

ExplodeCell(c, r, role, other, num) ==
    CASE c = "KEY" -> IntVal(DigitOf(r))
      [] c = "hire_role" -> role
      [] c = "hire_role_other" -> other
      [] c = "pi_add" -> IF r % 2 = 1 THEN No ELSE Yes
      [] c = "pi_name" -> <<"O">> \o Mojibake \o <<"N">>
      [] c = "number_role_ra" -> IF num = "text" THEN <<"x">> ELSE IntVal("2")
      [] c = "number_role" -> IF num = "blank" THEN NaN ELSE IntVal("1")
      [] c = "hire_position_location_ra" -> Nigeria
      [] OTHER -> Global \o <<",", " ">> \o Chad

\* the columns a fetched table may lack
ColumnDrops == {{}, {"hire_role_other"}, {"hire_role"}, {"pi_add"}}

\* the records: hire_role_other varies where the roles name Other, number_role_ra
\* where they name RA, number_role where some row is emitted
RowChoices ==
    {c \in HireRoleValues \X HireRoleOtherValues \X NumberKinds :
        /\ Other \notin Range(Split(StrOf(c[1]))) => c[2] = NaN
        /\ RA \notin Range(Split(StrOf(c[1]))) => c[3] # "text"
        /\ c[1] = NaN => c[3] = "ok"}

ExplodeTable(drop, choice) ==
    LET cols == SelectSeq(ExplodeCols, LAMBDA c : c \notin drop)
    IN  Table(cols,
              [r \in 1..Len(choice) |->
                  [k \in 1..Len(cols) |->
                      ExplodeCell(cols[k], r, choice[r][1], choice[r][2], choice[r][3])]])

ExplodeTables ==
    {ExplodeTable(drop, choice) :
        drop \in ColumnDrops,
        choice \in UNION {[1..n -> RowChoices] : n \in 0..MaxRows}}

(***************************************************************************)
(* utils.py merge_attachments                                              *)
(***************************************************************************)
\* df.rename(columns={col: col + "_file"}): every column of that name
RenameCol(t, col) ==
    Table([k \in 1..Len(t.cols) |-> IF t.cols[k] = col THEN col \o "_file" ELSE t.cols[k]],
          t.rows)

\* lines 198-200, from field k on
RECURSIVE RenameFields(_, _, _)
RenameFields(t, attachment_fields, k) ==
    IF k > Len(attachment_fields) THEN t
    ELSE RenameFields(IF HasCol(t, attachment_fields[k])
                      THEN RenameCol(t, attachment_fields[k]) ELSE t,
                      attachment_fields, k + 1)

\* line 203
KeepFields(match_on, attachment_fields, form) ==
    <<match_on>> \o SelectSeq(attachment_fields, LAMBDA c : HasCol(form, c))

\* line 204: df_form[keep_fields]
Project(t, names) ==
    Table(names, [r \in 1..NRows(t) |-> [k \in 1..Len(names) |-> Cell(t, r, names[k])]])

CountCol(t, c) == Cardinality({k \in 1..Len(t.cols) : t.cols[k] = c})

\* the dtype pandas gives a column: numbers only, or object once a text is in it
NumericCol(t, c) ==
    /\ NRows(t) > 0
    /\ \A r \in 1..NRows(t) : ~IsStr(Cell(t, r, c))
    /\ \E r \in 1..NRows(t) : IsInt(Cell(t, r, c))

TextCol(t, c) == \E r \in 1..NRows(t) : IsStr(Cell(t, r, c))

\* pd.merge(left, right, on=key) raises: the key is no (unique) column of a side, or
\* one side's key is numeric and the other's text
MergeRaises(left, right, key) ==
    \/ CountCol(left, key) # 1
    \/ CountCol(right, key) # 1
    \/ NumericCol(left, key) /\ TextCol(right, key)
    \/ TextCol(left, key) /\ NumericCol(right, key)

\* pd.merge(left, right, on=key, how='left'): the left rows in order, each once per
\* matching right row, or once with NaN; a name on both sides gets _x and _y
RightRest(right, key) == SelectSeq(right.cols, LAMBDA c : c # key)

MergedCols(left, right, key) ==
    LET rest == RightRest(right, key)
    IN  [k \in 1..Len(left.cols) |->
            IF left.cols[k] # key /\ left.cols[k] \in Range(rest)
            THEN left.cols[k] \o "_x" ELSE left.cols[k]]
        \o [k \in 1..Len(rest) |->
            IF rest[k] \in Range(left.cols) THEN rest[k] \o "_y" ELSE rest[k]]

RECURSIVE JoinRows(_, _, _, _)
JoinRows(left, right, key, r) ==
    IF r > NRows(left) THEN <<>>
    ELSE LET rest == RightRest(right, key)
             hits == SelectSeq([q \in 1..NRows(right) |-> q],
                               LAMBDA q : Cell(right, q, key) = Cell(left, r, key))
             tail(q) == [k \in 1..Len(rest) |-> Cell(right, q, rest[k])]
             mine == IF hits = <<>>
                     THEN <<left.rows[r] \o [k \in 1..Len(rest) |-> NaN]>>
                     ELSE [h \in 1..Len(hits) |-> left.rows[r] \o tail(hits[h])]
         IN  mine \o JoinRows(left, right, key, r + 1)

LeftMerge(left, right, key) ==
    Table(MergedCols(left, right, key), JoinRows(left, right, key, 1))

\* attach_cfg.get("fields", []) if isinstance(attach_cfg, dict) else []
AttachmentFields == IF cfg.attachments.kind = "dict" THEN cfg.attachments.fields ELSE <<>>

\* load_processed_dataset lines 128-132: merge when some field lacks its _file column
AttachmentGuard ==
    /\ pc = "AttachmentMerge" /\ spc = "idle"
    /\ IF \E k \in 1..Len(AttachmentFields) : ~HasCol(df, AttachmentFields[k] \o "_file")
       THEN /\ df_main' = df
            /\ spc' = "m_config"
            /\ pc' = pc
            /\ log' = Append(log, LogEntry("merge_in", "", <<>>, df, df, FALSE))
       ELSE /\ pc' = "RunScripts"
            /\ log' = Append(log, LogEntry("merge_out", "not_called", <<>>, df, df, FALSE))
            /\ UNCHANGED <<df_main, spc>>
    /\ UNCHANGED <<cfg, df, column_labels, label_info, ret, units, ui, sdf, aliased, ri,
                   long_rows, df_form, si, fin, fout>>

\* lines 182-190
MergeConfig ==
    /\ pc = "AttachmentMerge" /\ spc = "m_config"
    /\ spc' = IF cfg.attachments.from_form.on THEN "m_fetch" ELSE "m_ret_no_form"
    /\ UNCHANGED <<pc, cfg, df, column_labels, label_info, ret, units, ui, sdf, aliased,
                   ri, long_rows, log, df_main, df_form, si, fin, fout>>

\* lines 192-195: connect_scto() gives None without credentials, the fetch or the
\* parse may raise
MergeFetch ==
    /\ pc = "AttachmentMerge" /\ spc = "m_fetch"
    /\ IF cfg.creds /\ cfg.form.fetch = "ok"
       THEN /\ df_form' = cfg.form.table
            /\ spc' = "m_check"
       ELSE /\ spc' = "m_exc_fetch"
            /\ UNCHANGED df_form
    /\ UNCHANGED <<pc, cfg, df, column_labels, label_info, ret, units, ui, sdf, aliased,
                   ri, long_rows, log, df_main, si, fin, fout>>

\* lines 197 and 208-209
MergeCheckKey ==
    /\ pc = "AttachmentMerge" /\ spc = "m_check"
    /\ spc' = IF HasCol(df_main, cfg.attachments.from_form.match_on)
                 /\ HasCol(df_form, cfg.attachments.from_form.match_on)
              THEN "m_rename" ELSE "m_ret_key_absent"
    /\ UNCHANGED <<pc, cfg, df, column_labels, label_info, ret, units, ui, sdf, aliased,
                   ri, long_rows, log, df_main, df_form, si, fin, fout>>

\* lines 198-200: df_main is bound to the renamed frame
MergeRename ==
    /\ pc = "AttachmentMerge" /\ spc = "m_rename"
    /\ df_main' = RenameFields(df_main, cfg.attachments.fields, 1)
    /\ spc' = "m_join"
    /\ UNCHANGED <<pc, cfg, df, column_labels, label_info, ret, units, ui, sdf, aliased,
                   ri, long_rows, log, df_form, si, fin, fout>>

\* lines 203-206: the merge is returned, or raises into the except clause
MergeJoin ==
    /\ pc = "AttachmentMerge" /\ spc = "m_join"
    /\ LET match_on == cfg.attachments.from_form.match_on
           kept == Project(df_form, KeepFields(match_on, cfg.attachments.fields, df_form))
       IN  IF MergeRaises(df_main, kept, match_on)
           THEN /\ df_form' = kept
                /\ spc' = "m_exc_merge"
                /\ UNCHANGED <<pc, df, log>>
           ELSE /\ df_form' = kept
                /\ df' = LeftMerge(df_main, kept, match_on)
                /\ spc' = "idle"
                /\ pc' = "RunScripts"
                /\ log' = Append(log, LogEntry("merge_out", "joined", <<>>, df, df', FALSE))
    /\ UNCHANGED <<cfg, column_labels, label_info, ret, units, ui, sdf, aliased, ri,
                   long_rows, df_main, si, fin, fout>>

MergeEnds == {"m_ret_no_form", "m_ret_key_absent", "m_exc_fetch", "m_exc_merge"}

\* lines 187 and 210-213: return df_main
MergeReturnMain ==
    /\ pc = "AttachmentMerge" /\ spc \in MergeEnds
    /\ df' = df_main
    /\ spc' = "idle"
    /\ pc' = "RunScripts"
    /\ log' = Append(log, LogEntry("merge_out", spc, <<>>, df, df_main, FALSE))
    /\ UNCHANGED <<cfg, column_labels, label_info, ret, units, ui, sdf, aliased, ri,
                   long_rows, df_main, df_form, si, fin, fout>>

(***************************************************************************)
(* utils.py load_processed_dataset                                         *)
(***************************************************************************)
Dict(keys) == [bound |-> TRUE, keys |-> keys]

\* the expression df, column_labels, label_info of a return statement: reading a local
\* that was never assigned raises UnboundLocalError
ReturnTriple(d, cl, li) ==
    IF d = Unbound \/ ~cl.bound \/ ~li.bound
    THEN [kind |-> "raise", exc |-> "UnboundLocalError", df |-> Unbound,
          column_labels |-> UnboundInfo, label_info |-> UnboundInfo]
    ELSE [kind |-> "return", exc |-> "", df |-> d, column_labels |-> cl, label_info |-> li]

NoReturn ==
    [kind |-> "running", exc |-> "", df |-> Unbound, column_labels |-> UnboundInfo,
     label_info |-> UnboundInfo]

\* lines 82-100: whether the try block of the chosen branch raises
FetchRaises ==
    IF cfg.creds
    THEN cfg.source_type \notin {"dataset", "form"} \/ cfg.backend # "ok" \/ cfg.csv # "ok"
    ELSE cfg.file # "ok"

\* lines 78-100
Fetch ==
    /\ pc = "Fetch"
    /\ IF FetchRaises
       THEN /\ ret' = ReturnTriple(df, column_labels, label_info)
            /\ pc' = IF ret'.kind = "raise" THEN "Raised" ELSE "Done"
            /\ log' = Append(log, LogEntry("fetch_failed", "Fetch", <<>>, df, df, TRUE))
            /\ UNCHANGED df
       ELSE /\ df' = cfg.data
            /\ pc' = "Filter"
            /\ log' = Append(log, LogEntry("stage_out", "Fetch", <<>>, df', df', FALSE))
            /\ UNCHANGED ret
    /\ UNCHANGED <<cfg, column_labels, label_info, units, ui, spc, sdf, aliased, ri,
                   long_rows, df_main, df_form, si, fin, fout>>

\* df[df[col] == val]
FilterRows(t, col, val) ==
    Table(t.cols, SelectSeq(t.rows, LAMBDA row : row[ColIdx(t, col)] = val /\ val # NaN))

\* lines 121-126
Filter ==
    /\ pc = "Filter"
    /\ df' = IF cfg.filter.on /\ HasCol(df, cfg.filter.column)
             THEN FilterRows(df, cfg.filter.column, cfg.filter.value)
             ELSE df
    /\ pc' = "AttachmentMerge"
    /\ log' = Append(log, LogEntry("stage_out", "Filter", <<>>, df, df', FALSE))
    /\ UNCHANGED <<cfg, column_labels, label_info, ret, units, ui, spc, sdf, aliased, ri,
                   long_rows, df_main, df_form, si, fin, fout>>

\* the order of str: code points
Ord(c) ==
    CASE c = "." -> 46 [] c = "A" -> 65 [] c = "B" -> 66 [] c = "R" -> 82
      [] c = "a" -> 97 [] c = "b" -> 98 [] c = "c" -> 99 [] c = "e" -> 101
      [] c = "o" -> 111 [] c = "p" -> 112 [] c = "r" -> 114 [] c = "s" -> 115
      [] c = "t" -> 116 [] c = "x" -> 120 [] c = "y" -> 121 [] OTHER -> 0

RECURSIVE StrLess(_, _)
StrLess(a, b) ==
    IF b = <<>> THEN FALSE
    ELSE IF a = <<>> THEN TRUE
    ELSE IF Ord(Head(a)) # Ord(Head(b)) THEN Ord(Head(a)) < Ord(Head(b))
    ELSE StrLess(Tail(a), Tail(b))

\* sorted(os.listdir(folder)): file names are distinct
RECURSIVE SortedUnits(_)
SortedUnits(files) ==
    IF files = {} THEN <<>>
    ELSE LET first == CHOOSE u \in files : \A v \in files : v = u \/ StrLess(u.name, v.name)
         IN  <<first>> \o SortedUnits(files \ {first})

\* line 134 and run_specific_scripts lines 330-331
EnterScripts ==
    /\ pc = "RunScripts"
    /\ pc' = "CustomTransforms"
    /\ units' = SortedUnits(cfg.folder)
    /\ ui' = 1
    /\ spc' = "idle"
    /\ log' = Append(log, LogEntry("stage_in", "CustomTransforms", <<>>, df, df, FALSE))
    /\ UNCHANGED <<cfg, df, column_labels, label_info, ret, sdf, aliased, ri, long_rows,
                   df_main, df_form, si, fin, fout>>

LabelInfoKeys == <<"select_one", "select_multiple", "label_map">>

\* a label resolution whose failure takes the table with it
LabelResolution_failure_empties_table ==
    /\ pc = "LabelResolution"
    /\ label_info' = IF cfg.scto_cleaning.enabled /\ cfg.scto_cleaning.ok
                     THEN Dict(LabelInfoKeys) ELSE Dict(<<>>)
    /\ df' = IF cfg.scto_cleaning.enabled /\ ~cfg.scto_cleaning.ok THEN EmptyFrame ELSE df
    /\ pc' = "ColumnLabelResolution"
    /\ log' = Append(log, LogEntry("stage_out", "LabelResolution", <<>>, df, df',
                                   cfg.scto_cleaning.enabled /\ ~cfg.scto_cleaning.ok))
    /\ UNCHANGED <<cfg, column_labels, ret, units, ui, spc, sdf, aliased, ri,
                   long_rows, df_main, df_form, si, fin, fout>>

\* lines 136-147: apply_scto_cleaning hands df back untouched, or raises
LabelResolution ==
    /\ pc = "LabelResolution"
    /\ label_info' = IF cfg.scto_cleaning.enabled /\ cfg.scto_cleaning.ok
                     THEN Dict(LabelInfoKeys) ELSE Dict(<<>>)
    /\ pc' = "ColumnLabelResolution"
    /\ log' = Append(log, LogEntry("stage_out", "LabelResolution", <<>>, df, df,
                                   cfg.scto_cleaning.enabled /\ ~cfg.scto_cleaning.ok))
    /\ UNCHANGED <<cfg, df, column_labels, ret, units, ui, spc, sdf, aliased, ri,
                   long_rows, df_main, df_form, si, fin, fout>>

\* lines 149-154: apply_column_labels gives every column of df a label, or raises
ColumnLabelResolution ==
    /\ pc = "ColumnLabelResolution"
    /\ column_labels' = IF cfg.column_labels.on /\ cfg.column_labels.ok
                        THEN Dict(df.cols) ELSE Dict(<<>>)
    /\ pc' = "Return"
    /\ log' = Append(log, LogEntry("stage_out", "ColumnLabelResolution", <<>>, df, df,
                                   cfg.column_labels.on /\ ~cfg.column_labels.ok))
    /\ UNCHANGED <<cfg, df, label_info, ret, units, ui, spc, sdf, aliased, ri, long_rows,
                   df_main, df_form, si, fin, fout>>

\* line 158
Return ==
    /\ pc = "Return"
    /\ ret' = ReturnTriple(df, column_labels, label_info)
    /\ pc' = IF ret'.kind = "raise" THEN "Raised" ELSE "Done"
    /\ UNCHANGED <<cfg, df, column_labels, label_info, units, ui, spc, sdf, aliased, ri,
                   long_rows, log, df_main, df_form, si, fin, fout>>

(***************************************************************************)
(* Configurations and worlds                                               *)
(***************************************************************************)
NoForm == [on |-> FALSE, form_id |-> "", match_on |-> ""]

NoAttachments == [kind |-> "dict", from_form |-> NoForm, fields |-> <<>>]

NoFilter == [on |-> FALSE, column |-> "", value |-> <<>>]

\* a tab with a dataset source and nothing else configured, the server answering
PlainCfg ==
    [creds |-> TRUE, source_type |-> "dataset", backend |-> "ok", csv |-> "ok",
     file |-> "ok", data |-> EmptyFrame, filter |-> NoFilter,
     attachments |-> NoAttachments, form |-> [fetch |-> "ok", table |-> EmptyFrame],
     scto_cleaning |-> [enabled |-> FALSE, ok |-> TRUE],
     column_labels |-> [on |-> FALSE, ok |-> TRUE],
     folder |-> {ProcessUnit}]

\* the locals of a call that has not started a stage, and the input of the function
\* under check
FreshWith(at, table, config, input) ==
    /\ pc = at
    /\ cfg = config
    /\ df = table
    /\ column_labels = UnboundInfo
    /\ label_info = UnboundInfo
    /\ ret = NoReturn
    /\ units = <<>>
    /\ ui = 1
    /\ spc = "idle"
    /\ sdf = Unbound
    /\ aliased = FALSE
    /\ ri = 1
    /\ si = 1
    /\ long_rows = <<>>
    /\ log = <<>>
    /\ df_main = Unbound
    /\ df_form = Unbound
    /\ fin = input
    /\ fout = <<>>

Fresh(at, table, config) == FreshWith(at, table, config, <<>>)

(***************************************************************************)
(* The custom-transform stage on the tables of ExplodeTables,              *)
(* specific_scripts/ holding process.py                                    *)
(***************************************************************************)
InitExplode == \E t \in ExplodeTables : Fresh("RunScripts", t, PlainCfg)

NextExplode ==
    \/ EnterScripts
    \/ StartPyUnit
    \/ ExplodeRow
    \/ BuildFrame
    \/ NormalizeColumn
    \/ CoerceNumberRole
    \/ ReplaceQuotes
    \/ ClearPiName
    \/ UnitReturn
    \/ UnitExcept
    \/ ScriptsReturn

SpecExplode == InitExplode /\ [][NextExplode]_vars

(***************************************************************************)
(* Role explosion: what the claims expect                                  *)
(***************************************************************************)
RecognizedRoles == {RA, FC, Hybrid, Other}

\* the whitespace-separated tokens of a record's hire_role; a missing one has none
RoleTokens(t, r) ==
    IF HasCol(t, "hire_role") /\ IsStr(Cell(t, r, "hire_role"))
    THEN Split(Cell(t, r, "hire_role"))
    ELSE <<>>

RecognizedAt(t, r) == {k \in 1..Len(RoleTokens(t, r)) : RoleTokens(t, r)[k] \in RecognizedRoles}

RECURSIVE ExpectedRowCount(_, _)
ExpectedRowCount(t, r) ==
    IF r = 0 THEN 0 ELSE Cardinality(RecognizedAt(t, r)) + ExpectedRowCount(t, r - 1)

ScriptsDone == LeftStage("CustomTransforms")

\* C1: the table the custom-transform stage hands on has exactly one row per
\* (source record, recognized role token occurrence): a record with N recognized
\* tokens contributes N rows, a record with none contributes none.
C1_OneRowPerRecognizedRole ==
    ScriptsDone =>
        NRows(df) = ExpectedRowCount(StageIn("CustomTransforms"),
                                     NRows(StageIn("CustomTransforms")))

\* the role the claims expect under hire_role: for Other the override text (its
\* surrounding blanks aside) when the field is there and not blank, else the literal
ExpectedRole(t, r, role) ==
    IF role # Other THEN role
    ELSE IF HasCol(t, "hire_role_other") /\ IsStr(Cell(t, r, "hire_role_other"))
            /\ Strip(Cell(t, r, "hire_role_other")) # <<>>
         THEN Strip(Cell(t, r, "hire_role_other"))
         ELSE Other

Emitted(r, k) == {j \in 1..Len(long_rows) : long_rows[j].src = r /\ long_rows[j].tok = k}

\* C2: once the script is over, every recognized role token of every record has its
\* emitted row, whose hire_role is the token itself for RA, FC and Hybrid, and for
\* Other the hire_role_other text when present and not blank, the literal "Other"
\* when the field is absent, missing (NaN), empty or blank.
C2_EmittedRoleValue ==
    ScriptsDone =>
        LET t == StageIn("CustomTransforms")
        IN  \A r \in 1..NRows(t) : \A k \in RecognizedAt(t, r) :
                \E j \in Emitted(r, k) :
                    /\ DictHas(long_rows[j].row, "hire_role")
                    /\ DictGet(long_rows[j].row, "hire_role")
                           = ExpectedRole(t, r, RoleTokens(t, r)[k])

SuffixOf(role) ==
    CASE role = RA -> "_ra" [] role = FC -> "_fc" [] role = Hybrid -> "_hyb" [] OTHER -> ""

\* an emitted row carries prefix p iff the record has a value under p + suffix, and
\* then that value
VariantsSelected(t, e) ==
    \A k \in 1..Len(column_prefixes) :
        LET p == column_prefixes[k]
            full == p \o SuffixOf(e.role)
            there == HasCol(t, full) /\ ~IsNaN(Cell(t, e.src, full))
        IN  /\ DictHas(e.row, p) <=> there
            /\ there => DictGet(e.row, p) = Cell(t, e.src, full)

\* an emitted row carries the base fields in cs iff the record has them, verbatim
BaseCopied(t, e, cs) ==
    \A c \in cs :
        /\ DictHas(e.row, c) <=> HasCol(t, c)
        /\ HasCol(t, c) => DictGet(e.row, c) = Cell(t, e.src, c)

\* C3 as stated: every emitted row carries exactly the role's variant columns under
\* the bare prefixes, and every base field of the record verbatim.
C3_AllBaseFieldsVerbatim ==
    \A j \in 1..Len(long_rows) :
        /\ VariantsSelected(StageIn("CustomTransforms"), long_rows[j])
        /\ BaseCopied(StageIn("CustomTransforms"), long_rows[j], Range(base_columns))

\* C3 amended: every emitted row carries exactly the role's variant columns under the
\* bare prefixes (never another role's), and every base field of the record verbatim
\* except hire_role, which holds the row's normalized role instead.
C3_VariantsAndBaseFields ==
    \A j \in 1..Len(long_rows) :
        LET t == StageIn("CustomTransforms")
            e == long_rows[j]
        IN  /\ VariantsSelected(t, e)
            /\ BaseCopied(t, e, Range(base_columns) \ {"hire_role"})
            /\ DictGet(e.row, "hire_role") = ExpectedRole(t, e.src, e.role)
            /\ e.role = RoleTokens(t, e.src)[e.tok]

\* an RA row that took number_role from number_role_ra beside an Other row of the
\* same record whose own number_role is missing and so left out
C3_Witness ==
    \E i, j \in 1..Len(long_rows) :
        /\ long_rows[i].src = long_rows[j].src
        /\ long_rows[i].role = RA /\ long_rows[j].role = Other
        /\ DictHas(long_rows[i].row, "number_role")
        /\ DictGet(long_rows[i].row, "number_role") = IntVal("2")
        /\ ~DictHas(long_rows[j].row, "number_role")
        /\ DictHas(long_rows[j].row, "hire_position_location")



(***************************************************************************)
(* The attachment stage on its own: lines 128-132 and merge_attachments    *)
(***************************************************************************)
MainColumnChoices ==
    {<<"KEY", "name">>, <<"KEY", "cv">>, <<"KEY", "cv", "cv_file">>, <<"KEY", "cv_file">>,
     <<"name", "cv">>}

FormColumnChoices == {<<"KEY", "cv", "letter">>, <<"KEY", "cv">>, <<"cv", "letter">>}

FieldChoices == {<<>>, <<"cv">>, <<"cv", "letter">>}

KeyKinds == {"int", "text"}

\* a key cell: the number n, or a text naming it
KeyCell(kind, n) == IF kind = "int" THEN IntVal(DigitOf(n)) ELSE <<"k", DigitOf(n)>>

MergeCell(c, kind, key, r) ==
    CASE c = "KEY" -> KeyCell(kind, key)
      [] c = "cv" -> <<"u", DigitOf(r)>>
      [] c = "letter" -> <<"l", DigitOf(r)>>
      [] c = "cv_file" -> <<"f", DigitOf(r)>>
      [] OTHER -> <<"n">>

\* a table with these columns, its r-th row keyed keys[r]
MergeTable(cols, kind, keys) ==
    Table(cols,
          [r \in 1..Len(keys) |-> [k \in 1..Len(cols) |-> MergeCell(cols[k], kind, keys[r], r)]])

MainTables ==
    {MergeTable(cols, kind, [r \in 1..n |-> r]) :
        cols \in MainColumnChoices, kind \in KeyKinds, n \in 0..MaxRows}

FormTables ==
    {MergeTable(cols, kind, keys) :
        cols \in FormColumnChoices, kind \in KeyKinds,
        keys \in UNION {[1..m -> 1..2] : m \in 0..MaxRows}}

FormWorlds ==
    {[fetch |-> "ok", table |-> t] : t \in FormTables}
        \cup {[fetch |-> "raises", table |-> EmptyFrame]}

AttachmentChoices ==
    {[kind |-> "dict", from_form |-> f, fields |-> fields] :
        f \in {NoForm, [on |-> TRUE, form_id |-> "attachments_form", match_on |-> "KEY"]},
        fields \in FieldChoices}
        \cup {[kind |-> "null", from_form |-> NoForm, fields |-> <<>>]}

InitMerge ==
    \E t \in MainTables, a \in AttachmentChoices, w \in FormWorlds, c \in BOOLEAN :
        Fresh("AttachmentMerge", t,
              [PlainCfg EXCEPT !.attachments = a, !.form = w, !.creds = c])

NextMerge ==
    \/ AttachmentGuard
    \/ MergeConfig
    \/ MergeFetch
    \/ MergeCheckKey
    \/ MergeRename
    \/ MergeJoin
    \/ MergeReturnMain

SpecMerge == InitMerge /\ [][NextMerge]_vars

MergeOut == {k \in 1..Len(log) : log[k].ev = "merge_out" /\ log[k].stage # "not_called"}

\* C4: whenever merge_attachments was called on a primary table with distinct column
\* names, the table it returns has no two columns of the same name.
C4_NoDuplicateColumns ==
    \A k \in MergeOut : NoDupCols(log[k].before) => NoDupCols(log[k].after)

\* C5: whenever merge_attachments does not complete the join (no form configured,
\* join key absent from a side, fetch or parse or merge raising), it returns the
\* primary table exactly as given: same columns, same names, same rows.
C5_SkippedMergeReturnsInput ==
    \A k \in MergeOut : log[k].stage \in MergeEnds => log[k].after = log[k].before


(***************************************************************************)
(* load_processed_dataset from its first line, specific_scripts/ holding   *)
(* process.py                                                              *)
(***************************************************************************)
\* one-record tables, and one of two records that process.py explodes without error
PipelineTables ==
    {ExplodeTable({}, <<<<role, other, num>>>>) :
        role \in HireRoleValues, other \in {NaN, <<" ", "D", "r", " ">>}, num \in NumberKinds}
        \cup {ExplodeTable({}, <<<<RA \o <<" ">> \o Other, <<>>, "ok">>, <<RA, NaN, "ok">>>>)}

\* the server answers with a parseable table (dataset or form), or there are no
\* credentials and dataset.csv is read
FetchedWorlds ==
    {[PlainCfg EXCEPT !.source_type = st] : st \in {"dataset", "form"}}
        \cup {[PlainCfg EXCEPT !.creds = FALSE]}

\* an unknown source type, a failing backend call, an unparseable answer, or no
\* credentials and no readable dataset.csv
FailedWorlds ==
    {[PlainCfg EXCEPT !.source_type = "report"], [PlainCfg EXCEPT !.backend = "raises"],
     [PlainCfg EXCEPT !.csv = "bad"], [PlainCfg EXCEPT !.creds = FALSE, !.file = "missing"]}

FilterChoices ==
    {NoFilter, [on |-> TRUE, column |-> "pi_add", value |-> No],
     [on |-> TRUE, column |-> "status", value |-> No]}

PipelineAttachments ==
    {NoAttachments, [kind |-> "null", from_form |-> NoForm, fields |-> <<>>],
     [kind |-> "dict", fields |-> <<"cv">>,
      from_form |-> [on |-> TRUE, form_id |-> "attachments_form", match_on |-> "KEY"]]}

PipelineForm == [fetch |-> "ok", table |-> MergeTable(<<"KEY", "cv">>, "int", <<1>>)]

StageOutcomes == {[a |-> FALSE, b |-> TRUE], [a |-> TRUE, b |-> TRUE], [a |-> TRUE, b |-> FALSE]}

Init ==
    \E w \in FetchedWorlds \cup FailedWorlds, t \in PipelineTables, f \in FilterChoices,
       a \in PipelineAttachments, sc \in StageOutcomes, cl \in StageOutcomes :
        /\ Fresh("Fetch", Unbound,
                 [w EXCEPT !.data = IF w \in FailedWorlds THEN EmptyFrame ELSE t,
                           !.filter = f, !.attachments = a, !.form = PipelineForm,
                           !.scto_cleaning = [enabled |-> sc.a, ok |-> sc.b],
                           !.column_labels = [on |-> cl.a, ok |-> cl.b]])

Next ==
    \/ Fetch
    \/ Filter
    \/ AttachmentGuard
    \/ MergeConfig
    \/ MergeFetch
    \/ MergeCheckKey
    \/ MergeRename
    \/ MergeJoin
    \/ MergeReturnMain
    \/ EnterScripts
    \/ StartPyUnit
    \/ ExplodeRow
    \/ BuildFrame
    \/ NormalizeColumn
    \/ CoerceNumberRole
    \/ ReplaceQuotes
    \/ ClearPiName
    \/ UnitReturn
    \/ UnitExcept
    \/ ScriptsReturn
    \/ LabelResolution
    \/ ColumnLabelResolution
    \/ Return

Spec == Init /\ [][Next]_vars

FetchFailed == \E k \in 1..Len(log) : log[k].ev = "fetch_failed"

\* C6: when the primary dataset cannot be fetched or parsed, load_processed_dataset
\* runs no later stage and still hands its caller a (table, column-labels,
\* label-metadata) triple instead of raising.
C6_FetchFailureYieldsTriple ==
    FetchFailed =>
        /\ ret.kind = "return"
        /\ \A k \in 1..Len(log) : log[k].ev = "fetch_failed"

\* the for loop of process.py ran over every record
LoopCompleted ==
    /\ EnteredStage("CustomTransforms")
    /\ \E k \in 1..Len(log) : log[k].ev = "unit"
    /\ ri > NRows(StageIn("CustomTransforms"))

\* a number_role that int() rejects, or none at all
BadNumber(row) ==
    \/ ~DictHas(row, "number_role")
    \/ /\ IsStr(DictGet(row, "number_role"))
       /\ \/ Strip(DictGet(row, "number_role")) = <<>>
          \/ \E c \in Range(Strip(DictGet(row, "number_role"))) : c \notin Digits

SomeBadNumber == LoopCompleted /\ \E j \in 1..Len(long_rows) : BadNumber(long_rows[j].row)

MaxStmts == 2

MaxUnits == 2

RECURSIVE StmtSeqs(_)
StmtSeqs(n) ==
    IF n = 0 THEN {<<>>}
    ELSE StmtSeqs(n - 1) \cup
         {Append(q, st) : q \in {x \in StmtSeqs(n - 1) : Len(x) = n - 1},
                          st \in {"copy", "assign"}}

\* the body of a script, ended by nothing, a raise or sys.exit
PyScripts ==
    {q \o e : q \in StmtSeqs(MaxStmts), e \in {<<>>, <<"raise">>, <<"exit">>}}

PyNames == {<<"a">> \o DotPy, <<"B">> \o DotPy}

RNames == {<<"b">> \o DotR}

OtherNames == {<<"c", ".", "t", "x", "t">>}

FolderFiles ==
    {[name |-> n, script |-> "stmts", stmts |-> q, rc |-> 0, rout |-> "ok"] :
        n \in PyNames, q \in PyScripts}
    \cup {[name |-> n, script |-> "R", stmts |-> <<>>, rc |-> c, rout |-> o] :
        n \in RNames, c \in {0, 1}, o \in {"ok", "missing"}}
    \cup {[name |-> n, script |-> "none", stmts |-> <<>>, rc |-> 0, rout |-> "ok"] :
        n \in OtherNames}

\* os.listdir(folder): at most n files, their names distinct
RECURSIVE FoldersUpTo(_)
FoldersUpTo(n) ==
    IF n = 0 THEN {{}}
    ELSE FoldersUpTo(n - 1) \cup
         UNION {{f \cup {u} : u \in {v \in FolderFiles : \A w \in f : w.name # v.name}} :
                   f \in FoldersUpTo(n - 1)}

Folders == FoldersUpTo(MaxUnits)

ScriptTables ==
    {Table(<<"KEY", "x">>, <<<<IntVal("1"), v>>>>) : v \in {<<>>, <<"0", "7">>}}

InitScripts ==
    \E t \in ScriptTables, f \in Folders :
        Fresh("RunScripts", t, [PlainCfg EXCEPT !.folder = f])

NextScripts ==
    \/ EnterScripts
    \/ StartPyUnit
    \/ StmtCopy
    \/ StmtAssign
    \/ StmtRaise
    \/ StmtExit
    \/ StmtsEnd
    \/ UnitReturn
    \/ UnitExcept
    \/ RunRUnit
    \/ SkipFile
    \/ ScriptsReturn

SpecScripts == InitScripts /\ [][NextScripts]_vars

\* the log entries of the files the loop took up, in the order it took them up
IsUnitEntry(k) == log[k].ev \in {"running", "unit", "skipped", "propagated"}

\* C7, first part: the units run in lexicographic filename order, each of them once
UnitsInFilenameOrder ==
    /\ \A k, l \in 1..Len(log) :
          IsUnitEntry(k) /\ IsUnitEntry(l) /\ k < l => StrLess(log[k].unit, log[l].unit)
    /\ ScriptsDone =>
          {log[k].unit : k \in {j \in 1..Len(log) : IsUnitEntry(j)}}
              = {u.name : u \in cfg.folder}

\* C7, second part: a unit that failed handed on exactly the table it received
FailedUnitPassesInput ==
    \A k \in 1..Len(log) :
        log[k].ev = "unit" /\ log[k].failed => log[k].after = log[k].before

\* C7, third part: nothing a unit raises leaves run_specific_scripts
NoUnitExceptionPropagates == \A k \in 1..Len(log) : log[k].ev # "propagated"

\* C7: run_specific_scripts applies the units in lexicographic filename order; for
\* every unit that fails (a Python script raising at any point, an R script exiting
\* non-zero) the table handed to the next unit, or returned, is exactly the table the
\* failing unit received; no exception from a unit propagates to the pipeline.
C7_FailedUnitSkipped ==
    /\ UnitsInFilenameOrder
    /\ FailedUnitPassesInput
    /\ NoUnitExceptionPropagates

(***************************************************************************)
(* The country normalization of process.py lines 44-48 on one cell          *)
(***************************************************************************)
MaxPieces == 3

TextPieces == {Chad, Niger, Nigeria, Global, <<",", " ">>, <<"x">>}

RECURSIVE PieceTexts(_)
PieceTexts(n) ==
    IF n = 0 THEN {<<>>}
    ELSE PieceTexts(n - 1) \cup {t \o p : t \in PieceTexts(n - 1), p \in TextPieces}

\* the cells of hire_position_location: texts, and the NaN of a blank cell
LocationCells == PieceTexts(MaxPieces) \cup {NaN}

InitCountry == \E v \in LocationCells : FreshWith("Normalize", EmptyFrame, PlainCfg, v)

\* lines 45-47: the lambda on one cell
NormalizeCell ==
    /\ pc = "Normalize"
    /\ fout' = NormalizeLocation(fin)
    /\ pc' = "Normalized"
    /\ UNCHANGED <<cfg, df, column_labels, label_info, ret, units, ui, spc, sdf, aliased,
                   ri, si, long_rows, log, df_main, df_form, fin>>

NextCountry == NormalizeCell

SpecCountry == InitCountry /\ [][NextCountry]_vars

\* s.split(sep) for a separator of one or more characters
RECURSIVE SplitBy(_, _, _)
SplitBy(s, sep, cur) ==
    IF s = <<>> THEN <<cur>>
    ELSE IF Len(s) >= Len(sep) /\ SubSeq(s, 1, Len(sep)) = sep
         THEN <<cur>> \o SplitBy(SubSeq(s, Len(sep) + 1, Len(s)), sep, <<>>)
         ELSE SplitBy(Tail(s), sep, Append(cur, Head(s)))

\* the names of a comma-joined list
ListedNames(out) == IF out = <<>> THEN {} ELSE Range(SplitBy(out, <<",", " ">>, <<>>))

OccursAt(text, name, i) ==
    i >= 1 /\ i + Len(name) - 1 <= Len(text) /\ SubSeq(text, i, i + Len(name) - 1) = name

\* every occurrence of a in text lies inside an occurrence of b
AccountedFor(text, a, b) ==
    \A i \in 1..Len(text) :
        OccursAt(text, a, i) =>
            \E j \in 1..i : OccursAt(text, b, j) /\ i + Len(a) <= j + Len(b)

\* C9: for every text and every pair of catalog names A, B with A a proper substring
\* of B, if the text contains B at a position that accounts for the occurrence of A,
\* the output list contains B and does not also contain A; the output is the
\* comma-joined list of the picked names.
C9_LongestNamePicked ==
    pc = "Normalized" =>
        /\ fout = Join(PickedNames(fin), <<",", " ">>)
        /\ \A a, b \in Range(CountryNames) :
              (a # b /\ Contains(b, a) /\ Contains(StrOf(fin), b)
                 /\ AccountedFor(StrOf(fin), a, b))
                  => (b \in ListedNames(fout) /\ a \notin ListedNames(fout))

(***************************************************************************)
(* utils.py get_labels_for_multiple                                        *)
(***************************************************************************)
MaxLen == 3

\* Python's None
None == "<None>"

\* d.get(k, default)
DictGetOr(d, k, default) == IF DictHas(d, k) THEN DictGet(d, k) ELSE default

\* not x, for x a str or None
Falsy(x) == x = None \/ x = ""

LabelSep == <<" ", "|", " ">>

\* lines 305-310
get_labels_for_multiple(field, value_string, li) ==
    LET list_name == DictGetOr(li.select_multiple, field, None)
    IN  IF Falsy(list_name) \/ ~IsStr(value_string)
        THEN value_string
        ELSE LET parts   == Split(Strip(value_string))
                 codes   == [k \in 1..Len(parts) |-> Strip(parts[k])]
                 choices == DictGetOr(li.label_map, list_name, <<>>)
             IN  Join([k \in 1..Len(codes) |-> DictGetOr(choices, codes[k], codes[k])],
                      LabelSep)

Apple == <<"A", "p", "p", "l", "e">>

Banana == <<"B", "a", "n", "a", "n", "a">>

\* the label_info apply_scto_cleaning builds (lines 292-296) from a definition with
\* fruits and tools multi-choice, colour single-choice, and no choices for tool_list
FormLabelInfo ==
    [select_one      |-> <<<<"colour", "fruit_list">>>>,
     select_multiple |-> <<<<"fruits", "fruit_list">>, <<"tools", "tool_list">>>>,
     label_map       |-> <<<<"fruit_list", <<<<<<"a">>, Apple>>, <<<<"b">>, Banana>>>>>>>>]

LabelFields == {"fruits", "tools", "colour", "age"}

CodeChars == {"a", "b", "c", " "}

RECURSIVE CodeTexts(_)
CodeTexts(n) ==
    IF n = 0 THEN {<<>>}
    ELSE CodeTexts(n - 1) \cup {Append(t, c) : t \in CodeTexts(n - 1), c \in CodeChars}

\* the cells of a column: texts, the NaN of a blank cell, a number
LabelCells == CodeTexts(MaxLen) \cup {NaN, IntVal("1")}

InitLabels ==
    \E f \in LabelFields, v \in LabelCells :
        FreshWith("Resolve", EmptyFrame, PlainCfg,
                  [field |-> f, value |-> v, label_info |-> FormLabelInfo])

\* one call of get_labels_for_multiple
ResolveMultiple ==
    /\ pc = "Resolve"
    /\ fout' = get_labels_for_multiple(fin.field, fin.value, fin.label_info)
    /\ pc' = "Resolved"
    /\ UNCHANGED <<cfg, df, column_labels, label_info, ret, units, ui, spc, sdf, aliased,
                   ri, si, long_rows, log, df_main, df_form, fin>>

NextLabels == ResolveMultiple

SpecLabels == InitLabels /\ [][NextLabels]_vars

\* the positions where a code starts: a non-blank character with none before it
CodeStarts(v) == {i \in 1..Len(v) : ~IsSpace(v[i]) /\ (i = 1 \/ IsSpace(v[i - 1]))}

\* the code that starts at i runs up to the next blank
CodeAt(v, i) ==
    LET j == CHOOSE e \in i..Len(v) :
                 /\ \A k \in i..e : ~IsSpace(v[k])
                 /\ (e = Len(v) \/ IsSpace(v[e + 1]))
    IN  SubSeq(v, i, j)

\* the codes of a value, in the order they stand in it
RECURSIVE CodesFrom(_, _)
CodesFrom(v, starts) ==
    IF starts = {} THEN <<>>
    ELSE LET i == CHOOSE m \in starts : \A n \in starts : m <= n
         IN  <<CodeAt(v, i)>> \o CodesFrom(v, starts \ {i})

\* the label of a code in the Choice List of a field, the code itself when it has none
LabelOrCode(li, field, code) ==
    LET list == DictGet(li.select_multiple, field)
    IN  IF DictHas(li.label_map, list) /\ DictHas(DictGet(li.label_map, list), code)
        THEN DictGet(DictGet(li.label_map, list), code)
        ELSE code

RECURSIVE BarJoined(_)
BarJoined(labels) ==
    IF labels = <<>> THEN <<>>
    ELSE IF Len(labels) = 1 THEN Head(labels)
    ELSE Head(labels) \o <<" ", "|", " ">> \o BarJoined(Tail(labels))

\* C10: for every multi-choice field and every string value the result is the codes
\* obtained by splitting on whitespace, each replaced by its label in the field's
\* Choice List or left as the raw code when it has none, joined with " | " in the
\* original order; a non-string or empty value, and any value of a field that is not
\* registered as multi-choice, is returned unchanged.
C10_MultipleLabelsJoined ==
    pc = "Resolved" =>
        LET codes == CodesFrom(fin.value, CodeStarts(fin.value))
        IN  IF DictHas(fin.label_info.select_multiple, fin.field) /\ IsStr(fin.value)
            THEN /\ fout = BarJoined([k \in 1..Len(codes) |->
                                         LabelOrCode(fin.label_info, fin.field, codes[k])])
                 /\ fin.value = <<>> => fout = fin.value
            ELSE fout = fin.value

\* "b a" with a -> Apple, b -> Banana has given "Banana | Apple"
C10_Witness ==
    /\ pc = "Resolved"
    /\ fin.field = "fruits"
    /\ fin.value = <<"b", " ", "a">>
    /\ fout = Banana \o <<" ", "|", " ">> \o Apple

(***************************************************************************)
(* utils.py get_label                                                      *)
(***************************************************************************)
\* lines 301-303
get_label(field, value, li) ==
    LET list_name == DictGetOr(li.select_one, field, None)
        choices   == DictGetOr(li.label_map, list_name, <<>>)
    IN  DictGetOr(choices, Strip(StrOf(value)), value)

\* the labels a choices sheet may give a code: words, and texts that are codes too
ChoiceLabels == {Apple, Banana, <<"a">>, <<"b">>}

\* the Choice Lists with codes a and b
ChoiceLists == {<<<<<<"a">>, la>>, <<<<"b">>, lb>>>> : la, lb \in ChoiceLabels}

\* the label_info of a definition with colour single-choice on a list with choices,
\* size single-choice on a list without, fruits multi-choice
SingleLabelInfos ==
    {[select_one      |-> <<<<"colour", "colours">>, <<"size", "sizes">>>>,
      select_multiple |-> <<<<"fruits", "colours">>>>,
      label_map       |-> <<<<"colours", list>>>>] : list \in ChoiceLists}

SingleFields == {"colour", "size", "fruits", "age"}

InitGetLabel ==
    \E f \in SingleFields, v \in LabelCells, li \in SingleLabelInfos :
        FreshWith("Resolve", EmptyFrame, PlainCfg,
                  [field |-> f, value |-> v, label_info |-> li])

\* get_label on the value
ResolveOnce ==
    /\ pc = "Resolve"
    /\ fout' = <<get_label(fin.field, fin.value, fin.label_info)>>
    /\ pc' = "ResolvedOnce"
    /\ UNCHANGED <<cfg, df, column_labels, label_info, ret, units, ui, spc, sdf, aliased,
                   ri, si, long_rows, log, df_main, df_form, fin>>

\* get_label on what get_label returned
ResolveTwice ==
    /\ pc = "ResolvedOnce"
    /\ fout' = Append(fout, get_label(fin.field, fout[1], fin.label_info))
    /\ pc' = "ResolvedTwice"
    /\ UNCHANGED <<cfg, df, column_labels, label_info, ret, units, ui, spc, sdf, aliased,
                   ri, si, long_rows, log, df_main, df_form, fin>>

NextGetLabel ==
    \/ ResolveOnce
    \/ ResolveTwice

SpecGetLabel == InitGetLabel /\ [][NextGetLabel]_vars

\* the value is a code of the Choice List of the single-choice field
CodePresent ==
    /\ DictHas(fin.label_info.select_one, fin.field)
    /\ DictHas(fin.label_info.label_map, DictGet(fin.label_info.select_one, fin.field))
    /\ DictHas(DictGet(fin.label_info.label_map,
                       DictGet(fin.label_info.select_one, fin.field)), fin.value)

\* C11: for every single-choice field, every Choice List and every code c present in
\* that list, get_label(field, get_label(field, c)) equals get_label(field, c).
C11_GetLabelIdempotent ==
    (pc = "ResolvedTwice" /\ CodePresent) => fout[2] = fout[1]

(***************************************************************************)
(* utils.py write_dataset                                                  *)
(***************************************************************************)
\* a raise that leaves the function
Raise(exc) ==
    [kind |-> "raise", exc |-> exc, df |-> Unbound, column_labels |-> UnboundInfo,
     label_info |-> UnboundInfo]

\* line 396: the columns named <field>_file
ExcludeColumns(attachment_fields) ==
    {attachment_fields[k] \o "_file" : k \in 1..Len(attachment_fields)}

\* a mode that does not look at the flag
UploadMode_always_append(append) == "append"

\* line 417: "append" if append else "clear"
UploadMode(append) == IF append = "True" THEN "append" ELSE "clear"

\* to_csv of one cell: a missing cell is written empty
ToCsvCell(v) == IF IsNaN(v) THEN <<>> ELSE StrOf(v)

\* line 405: df.to_csv(tmp.name, index=False)
ToCsv(t) ==
    Table(t.cols,
          [r \in 1..NRows(t) |-> [k \in 1..Len(t.cols) |-> ToCsvCell(t.rows[r][k])]])

\* lines 387-391: the flag must be given
WriteCheckAppend ==
    /\ pc = "Write"
    /\ IF fin.append = "None"
       THEN /\ ret' = Raise("ValueError")
            /\ pc' = "Raised"
       ELSE /\ pc' = "WriteExclude"
            /\ UNCHANGED ret
    /\ UNCHANGED <<cfg, df, column_labels, label_info, units, ui, spc, sdf, aliased, ri,
                   si, long_rows, log, df_main, df_form, fin, fout>>

\* lines 393-397: with a tab_config, the _file columns of its attachment fields go
WriteExclude ==
    /\ pc = "WriteExclude"
    /\ df' = IF fin.tab_config.given
             THEN LET attachment_fields ==
                          IF fin.tab_config.attachments.kind = "dict"
                          THEN fin.tab_config.attachments.fields ELSE <<>>
                      exclude_columns == ExcludeColumns(attachment_fields)
                  IN  Project(df, SelectSeq(df.cols, LAMBDA c : c \notin exclude_columns))
             ELSE df
    /\ pc' = "WriteConnect"
    /\ UNCHANGED <<cfg, column_labels, label_info, ret, units, ui, spc, sdf, aliased, ri,
                   si, long_rows, log, df_main, df_form, fin, fout>>

\* lines 399-402: connect_scto gives None without credentials; the login may fail
WriteConnect ==
    /\ pc = "WriteConnect"
    /\ log' = Append(log, [ev |-> "connect", mode |-> "", table |-> EmptyFrame])
    /\ IF ~fin.creds
       THEN ret' = Raise("AttributeError") /\ pc' = "Raised"
       ELSE IF fin.auth # "ok"
       THEN ret' = Raise("RequestException") /\ pc' = "Raised"
       ELSE pc' = "WriteTemp" /\ UNCHANGED ret
    /\ UNCHANGED <<cfg, df, column_labels, label_info, units, ui, spc, sdf, aliased, ri,
                   si, long_rows, df_main, df_form, fin, fout>>

\* lines 404-406: the table is written to a temporary file
WriteTemp ==
    /\ pc = "WriteTemp"
    /\ log' = Append(log, [ev |-> "tempfile", mode |-> "", table |-> ToCsv(df)])
    /\ pc' = "WriteUpload"
    /\ UNCHANGED <<cfg, df, column_labels, label_info, ret, units, ui, spc, sdf, aliased,
                   ri, si, long_rows, df_main, df_form, fin, fout>>

\* lines 408-433: the file is posted, the answer checked, the file removed
WriteUpload ==
    /\ pc = "WriteUpload"
    /\ log' = log \o <<[ev |-> "upload", mode |-> UploadMode(fin.append),
                        table |-> log[Len(log)].table],
                       [ev |-> "remove", mode |-> "", table |-> EmptyFrame]>>
    /\ IF fin.http = "ok"
       THEN ret' = [Raise("") EXCEPT !.kind = "return"] /\ pc' = "Done"
       ELSE ret' = Raise("HTTPError") /\ pc' = "Raised"
    /\ UNCHANGED <<cfg, df, column_labels, label_info, units, ui, spc, sdf, aliased, ri,
                   si, long_rows, df_main, df_form, fin, fout>>

AppendFlags == {"None", "True", "False"}

\* tab_config: omitted, or a tab with its attachments entry
WriteConfigs ==
    {[given |-> FALSE, attachments |-> NoAttachments]}
    \cup {[given |-> TRUE, attachments |-> a] : a \in AttachmentChoices}

WriteColumnChoices ==
    MainColumnChoices \cup {<<"KEY", "cv", "cv_file", "letter", "letter_file">>,
                            <<"cv_file", "letter_file">>}

WriteTables ==
    {MergeTable(cols, "int", [r \in 1..n |-> r]) :
        cols \in WriteColumnChoices, n \in 0..MaxRows}

InitWrite ==
    \E t \in WriteTables, a \in AppendFlags, c \in WriteConfigs,
       creds \in BOOLEAN, auth \in {"ok", "refused"}, http \in {"ok", "error"} :
        FreshWith("Write", t, PlainCfg,
                  [df |-> t, append |-> a, tab_config |-> c, creds |-> creds,
                   auth |-> auth, http |-> http])

NextWrite ==
    \/ WriteCheckAppend
    \/ WriteExclude
    \/ WriteConnect
    \/ WriteTemp
    \/ WriteUpload

SpecWrite == InitWrite /\ [][NextWrite]_vars

\* the attachment fields the tab configures
ConfiguredFields ==
    IF fin.tab_config.given /\ fin.tab_config.attachments.kind = "dict"
    THEN Range(fin.tab_config.attachments.fields) ELSE {}

\* C12: with the append flag omitted write_dataset fails before any connection,
\* temporary file or upload request is made; with the flag given, the upload mode sent
\* is append for a true flag and clear otherwise, and every <field>_file column of a
\* configured attachment field is excluded from the uploaded table.
C12_WriteDatasetGuarded ==
    /\ fin.append = "None" =>
          /\ log = <<>>
          /\ pc \in {"Write", "Raised"}
          /\ pc = "Raised" => ret.exc = "ValueError"
    /\ \A k \in 1..Len(log) :
          log[k].ev = "upload" =>
              /\ fin.append # "None"
              /\ log[k].mode = (IF fin.append = "True" THEN "append" ELSE "clear")
              /\ \A f \in ConfiguredFields : (f \o "_file") \notin Range(log[k].table.cols)
              /\ \A c \in Range(fin.df.cols) :
                    (\A f \in ConfiguredFields : c # f \o "_file")
                        => c \in Range(log[k].table.cols)

\* a table with cv_file and a tab configuring cv went up in clear mode without it
C12_Witness ==
    /\ \E k \in 1..Len(log) : log[k].ev = "upload" /\ log[k].mode = "clear"
    /\ "cv" \in ConfiguredFields
    /\ "cv_file" \in Range(fin.df.cols)
    /\ NRows(fin.df) > 0

(***************************************************************************)
(* The order of the stages of load_processed_dataset                       *)
(***************************************************************************)
StageOrder ==
    <<"Filter", "AttachmentMerge", "CustomTransforms", "LabelResolution",
      "ColumnLabelResolution">>

\* the stage a log entry closes, "" when it closes none
StageClosed(e) ==
    IF e.ev = "merge_out" THEN "AttachmentMerge"
    ELSE IF e.ev = "stage_out" /\ e.stage # "Fetch" THEN e.stage
    ELSE ""

\* the stages that have run, in the order they ran
StagesRun ==
    SelectSeq([k \in 1..Len(log) |-> StageClosed(log[k])], LAMBDA x : x # "")

PastFetch == \E k \in 1..Len(log) : log[k].ev = "stage_out" /\ log[k].stage = "Fetch"

\* the table CustomTransforms handed on
TransformsOut ==
    log[CHOOSE k \in 1..Len(log) :
            log[k].ev = "stage_out" /\ log[k].stage = "CustomTransforms"].after

StageFailed(stage) ==
    \E k \in 1..Len(log) : log[k].ev = "stage_out" /\ log[k].stage = stage /\ log[k].failed

\* C13: in every run that gets past Fetch the stages run once each in the order Filter,
\* AttachmentMerge, CustomTransforms, LabelResolution, ColumnLabelResolution, never
\* going back; a failure of LabelResolution or ColumnLabelResolution leaves the table
\* CustomTransforms produced unchanged, gives empty label metadata or empty column
\* labels for the failed stage, and the run still returns the triple.
C13_StagesInOrder ==
    /\ StagesRun = SubSeq(StageOrder, 1, Len(StagesRun))
    /\ (PastFetch /\ pc \in {"Done", "Raised"}) =>
          /\ pc = "Done"
          /\ StagesRun = StageOrder
          /\ ret.kind = "return"
          /\ ret.df = TransformsOut
    /\ LeftStage("CustomTransforms") => df = TransformsOut
    /\ StageFailed("LabelResolution") =>
          /\ label_info = Dict(<<>>)
          /\ pc = "Done" => ret.label_info = Dict(<<>>)
    /\ StageFailed("ColumnLabelResolution") =>
          /\ column_labels = Dict(<<>>)
          /\ pc = "Done" => ret.column_labels = Dict(<<>>)

\* a run whose label resolution failed has returned its triple, the table exploded
C13_Witness ==
    /\ pc = "Done"
    /\ StageFailed("LabelResolution")
    /\ ret.kind = "return"
    /\ NRows(ret.df) = 2
    /\ ret.column_labels # Dict(<<>>)

(***************************************************************************)
(* app.py detail view                                                      *)
(***************************************************************************)
MaxCols == 2

\* lines 79-83: the columns in order, a name kept where it first stands
RECURSIVE Dedup(_, _)
Dedup(cols, acc) ==
    IF cols = <<>> THEN acc
    ELSE Dedup(Tail(cols), IF Head(cols) \in Range(acc) THEN acc ELSE Append(acc, Head(cols)))

\* lines 93-97: the value of the record under col, resolved where col is a choice field
ResolvedValue(t, r, col, li) ==
    LET val == Cell(t, r, col)
    IN  IF DictHas(li.select_one, col) THEN get_label(col, val, li)
        ELSE IF DictHas(li.select_multiple, col) THEN get_labels_for_multiple(col, val, li)
        ELSE val

\* line 159: pd.notna(v) and str(v).strip() != ""
Shown(v) == NotNa(v) /\ Strip(StrOf(v)) # <<>>

\* lines 77-86: configured_cols and ordered_cols
DetailColumns ==
    /\ pc = "Detail"
    /\ fout' = [ordered_cols |-> SelectSeq(Dedup(fin.default_columns \o fin.detail_columns,
                                                 <<>>),
                                           LAMBDA c : HasCol(fin.full_df, c)),
                k |-> 1, row_display |-> <<>>, items |-> <<>>]
    /\ pc' = "DetailRow"
    /\ UNCHANGED <<cfg, df, column_labels, label_info, ret, units, ui, spc, sdf, aliased,
                   ri, si, long_rows, log, df_main, df_form, fin>>

\* lines 92-103, one column: row_display[label] = val
DetailResolve ==
    /\ pc = "DetailRow" /\ fout.k <= Len(fout.ordered_cols)
    /\ LET col   == fout.ordered_cols[fout.k]
           val   == ResolvedValue(fin.full_df, fin.detail_index, col, fin.label_info)
           label == DictGetOr(fin.column_labels, col, col)
       IN  fout' = [fout EXCEPT !.row_display = DictSet(@, label, val), !.k = @ + 1]
    /\ UNCHANGED <<pc, cfg, df, column_labels, label_info, ret, units, ui, spc, sdf,
                   aliased, ri, si, long_rows, log, df_main, df_form, fin>>

\* lines 156-160: the items shown
DetailItems ==
    /\ pc = "DetailRow" /\ fout.k > Len(fout.ordered_cols)
    /\ fout' = [fout EXCEPT !.items = SelectSeq(fout.row_display, LAMBDA kv : Shown(kv[2]))]
    /\ pc' = "DetailShown"
    /\ UNCHANGED <<cfg, df, column_labels, label_info, ret, units, ui, spc, sdf, aliased,
                   ri, si, long_rows, log, df_main, df_form, fin>>

DetailNames == {"colour", "fruits", "age", "ghost"}

RECURSIVE ColumnLists(_)
ColumnLists(n) ==
    IF n = 0 THEN {<<>>}
    ELSE ColumnLists(n - 1) \cup
         {Append(q, c) : q \in ColumnLists(n - 1), c \in DetailNames}

\* the record: a single-choice code, a multi-choice value, a number
DetailTables ==
    {Table(<<"colour", "fruits", "age">>, <<<<c, f, a>>>>) :
        c \in {<<"a">>, NaN, <<" ">>}, f \in {<<"b", " ", "a">>, <<>>},
        a \in {IntVal("1"), NaN}}

\* column_labels: none, one display name per column, or one shared by two columns
DetailLabelMaps ==
    {<<>>,
     <<<<"colour", "Colour">>, <<"fruits", "Fruits">>, <<"age", "Age">>>>,
     <<<<"colour", "Colour">>, <<"fruits", "Choice">>, <<"age", "Choice">>>>}

InitDetail ==
    \E t \in DetailTables, d \in ColumnLists(MaxCols), e \in ColumnLists(MaxCols),
       cl \in DetailLabelMaps :
        FreshWith("Detail", t, PlainCfg,
                  [full_df |-> t, detail_index |-> 1, default_columns |-> d,
                   detail_columns |-> e, column_labels |-> cl,
                   label_info |-> FormLabelInfo])

NextDetail ==
    \/ DetailColumns
    \/ DetailResolve
    \/ DetailItems

SpecDetail == InitDetail /\ [][NextDetail]_vars

\* the configured columns: default then detail, a name at its first position, in the table
ExpectedColumns ==
    LET all == fin.default_columns \o fin.detail_columns
        at  == {i \in 1..Len(all) : /\ \A j \in 1..(i - 1) : all[j] # all[i]
                                    /\ all[i] \in Range(fin.full_df.cols)}
    IN  [i \in at |-> all[i]]

RECURSIVE ExpectedPairs(_, _)
ExpectedPairs(cols, at) ==
    IF at = {} THEN <<>>
    ELSE LET i == CHOOSE m \in at : \A n \in at : m <= n
             v == ResolvedValue(fin.full_df, fin.detail_index, cols[i], fin.label_info)
         IN  (IF NotNa(v) /\ \E k \in 1..Len(StrOf(v)) : ~IsSpace(StrOf(v)[k])
              THEN <<<<DictGetOr(fin.column_labels, cols[i], cols[i]), v>>>>
              ELSE <<>>)
             \o ExpectedPairs(cols, at \ {i})

\* C14: the detail view lists (display-label, value) pairs in the order default_columns
\* then detail_columns, duplicate names removed (first wins) and columns absent from
\* the table dropped: exactly one pair for each such column whose resolved value is
\* neither missing nor blank, none for a column whose value is missing or blank.
C14_DetailPairs ==
    pc = "DetailShown" =>
        fout.items = ExpectedPairs(ExpectedColumns, DOMAIN ExpectedColumns)

(***************************************************************************)
(* app.py table view, single-choice columns                                *)
(***************************************************************************)
\* line 203: replace(r"\\.0$", "", regex=True); the pattern is a backslash, any one
\* character and 0 at the end of the text
DropPattern(s) ==
    IF Len(s) >= 3 /\ s[Len(s) - 2] = "\\" /\ s[Len(s)] = "0"
    THEN SubSeq(s, 1, Len(s) - 3)
    ELSE s

\* lines 202-204 on one cell: Series.map gives NaN where the dict has no such key
TableCell(col, v, li) ==
    LET list_name == DictGet(li.select_one, col)
        text      == DropPattern(Strip(StrOf(v)))
        choices   == DictGetOr(li.label_map, list_name, <<>>)
    IN  IF DictHas(choices, text) THEN DictGet(choices, text) ELSE NaN

\* the cells of a single-choice column
ChoiceCells == LabelCells \cup {<<"1", ".", "0">>, <<"a", "\\", ".", "0">>}

InitViews ==
    \E f \in {"colour", "size"}, v \in ChoiceCells, li \in SingleLabelInfos :
        FreshWith("TableView", EmptyFrame, PlainCfg,
                  [field |-> f, value |-> v, label_info |-> li])

\* lines 201-204: the cell as the table view shows it
TableShow ==
    /\ pc = "TableView" /\ DictHas(fin.label_info.select_one, fin.field)
    /\ fout' = [table |-> TableCell(fin.field, fin.value, fin.label_info), detail |-> <<>>]
    /\ pc' = "DetailView"
    /\ UNCHANGED <<cfg, df, column_labels, label_info, ret, units, ui, spc, sdf, aliased,
                   ri, si, long_rows, log, df_main, df_form, fin>>

\* lines 94-95: the same cell as the detail view shows it
DetailShow ==
    /\ pc = "DetailView" /\ DictHas(fin.label_info.select_one, fin.field)
    /\ fout' = [fout EXCEPT !.detail = get_label(fin.field, fin.value, fin.label_info)]
    /\ pc' = "Viewed"
    /\ UNCHANGED <<cfg, df, column_labels, label_info, ret, units, ui, spc, sdf, aliased,
                   ri, si, long_rows, log, df_main, df_form, fin>>

NextViews ==
    \/ TableShow
    \/ DetailShow

SpecViews == InitViews /\ [][NextViews]_vars

\* the single-choice lookup contract: the mapped label of a code of the column's
\* Choice List, the raw value for any other value and for an unknown list
LookupContract ==
    LET list == DictGet(fin.label_info.select_one, fin.field)
        code == Strip(StrOf(fin.value))
    IN  IF DictHas(fin.label_info.label_map, list)
           /\ DictHas(DictGet(fin.label_info.label_map, list), code)
        THEN DictGet(DictGet(fin.label_info.label_map, list), code)
        ELSE fin.value

\* C15: for every single-choice column and every cell value the table view shows the
\* result of the single-choice lookup contract (the mapped label when the code is in
\* the column's Choice List, the raw value when it is not or the list is unknown),
\* which is the value get_label returns for the detail view.
C15_ViewsAgree ==
    pc = "Viewed" =>
        /\ fout.table = LookupContract
        /\ fout.table = fout.detail

====
